---------------------------- MODULE Spec2Model ----------------------------
(***************************************************************************)
(* Model of the carrot image services.                                     *)
(*                                                                         *)
(*  - generator_api.py (always-release memory discipline): the lazily     *)
(*    loaded process-wide SDXL base / refiner pipelines, the /generate    *)
(*    handler with its two shapes (single pass, hires-fix), the           *)
(*    best-effort call to the enhancer and the packaging of the result.   *)
(*  - upgraded-sdxl-api.py (retain-both memory discipline): both          *)
(*    pipelines loaded at startup and kept for the life of the process.   *)
(*  - enhancer_api.py and simple_enhancer_api.py: the /enhance handlers.   *)
(*  - carrot/scripts/ghibli/worker_app.py: the /generate-image handler    *)
(*    with its process-wide pipelines, LoRAs and output file.              *)
(*                                                                         *)
(* Numbers that are floats in the source are kept in fixed point:          *)
(* cfg and hires_scale in tenths, hires_denoise and strength in            *)
(* hundredths.  Text is a sequence of pieces (characters for the user      *)
(* prompt and the keywords, whole tag strings for the preset tags).        *)
(***************************************************************************)
EXTENDS Integers, Sequences, FiniteSets, TLC

VARIABLES
    handle,       \* generator_api globals: [base |-> _base_pipeline, refiner |-> _refiner_pipeline]
    initialized,  \* firebase_utils._initialized
    wk,           \* one frame per request worker of generator_api: locals and position
    rng,          \* torch's global default generator: the seed torch.manual_seed set last
    lastAcq,      \* history: per kind, the handle the last acquire returned since the last release
    nreq,         \* the number of requests the concurrent specification has started
    upg,          \* the upgraded-sdxl-api process: globals, request in progress, position
    fn,           \* a function or a handler called on its own: its arguments and its result
    gh            \* the Ghibli worker process: globals, output files, requests in progress

vars == <<handle, initialized, wk, rng, lastAcq, nreq, upg, fn, gh>>

\* ------------------------------------------------------------------------
\* prompt_styles.py
\* ------------------------------------------------------------------------

NEGATIVE_BASE ==
    "blurry, lowres, bad anatomy, deformed, disfigured, extra limbs, bad hands, cross-eye, text, watermark, logo, jpeg artifacts, oversharpened, noisy, grainy, duplicate, malformed"

\* hires_denoise written as a percentage (35 for 0.35)
StylePresetPercent(name, positive_tags, negative_tags, resolution, steps, cfg, hires, hires_scale, hires_denoise) ==
    [name |-> name, positive_tags |-> positive_tags, negative_tags |-> negative_tags,
     resolution |-> resolution, steps |-> steps, cfg |-> cfg, hires |-> hires,
     hires_scale |-> hires_scale, hires_denoise |-> hires_denoise * 100]

StylePreset(name, positive_tags, negative_tags, resolution, steps, cfg, hires, hires_scale, hires_denoise) ==
    [name |-> name, positive_tags |-> positive_tags, negative_tags |-> negative_tags,
     resolution |-> resolution, steps |-> steps, cfg |-> cfg, hires |-> hires,
     hires_scale |-> hires_scale, hires_denoise |-> hires_denoise]

StyleKeys ==
    {"photoreal_portrait", "cinematic", "editorial", "street", "neon",
     "watercolor", "art_deco_poster", "anime"}

STYLE_PRESETS ==
    [k \in StyleKeys |->
        CASE k = "photoreal_portrait" ->
                StylePreset("photoreal_portrait",
                    <<"ultra-detailed, photorealistic, 35mm, shallow depth of field, skin pores, natural light",
                      "sharp focus, catchlight eyes, well-defined iris, symmetrical face, cinematic lighting">>,
                    <<NEGATIVE_BASE, "overprocessed skin, plastic skin, uncanny valley">>,
                    <<1024, 1024>>, 35, 70, TRUE, 20, 35)
          [] k = "cinematic" ->
                StylePreset("cinematic",
                    <<"cinematic still, volumetric light, film grain subtle, arri alexa, moody shadows, rim light",
                      "masterpiece, best quality, sharp details">>,
                    <<NEGATIVE_BASE>>,
                    <<1024, 1024>>, 35, 70, TRUE, 15, 35)
          [] k = "editorial" ->
                StylePreset("editorial",
                    <<"fashion editorial, studio lighting, softbox, crisp edges, glossy magazine look, rich color",
                      "sharp eyes, perfect makeup, detailed hair strands, high contrast">>,
                    <<NEGATIVE_BASE, "overexposed highlights, blown highlights">>,
                    <<1024, 1280>>, 36, 72, TRUE, 17, 38)
          [] k = "street" ->
                StylePreset("street",
                    <<"documentary, candid, natural light, realistic color, fine texture, subtle grain">>,
                    <<NEGATIVE_BASE>>,
                    <<1024, 1024>>, 32, 68, TRUE, 15, 32)
          [] k = "neon" ->
                StylePreset("neon",
                    <<"neon lights, reflective surfaces, rain-soaked streets, bokeh, high contrast, glows">>,
                    <<NEGATIVE_BASE>>,
                    <<1024, 1024>>, 35, 75, TRUE, 18, 36)
          [] k = "watercolor" ->
                StylePreset("watercolor",
                    <<"watercolor painting, soft edges, paper texture, delicate wash, hand-painted look">>,
                    <<NEGATIVE_BASE, "photoreal">>,
                    <<1024, 1024>>, 28, 70, FALSE, 10, 0)
          [] k = "art_deco_poster" ->
                StylePreset("art_deco_poster",
                    <<"art deco, bold geometry, limited palette, high contrast, poster design, clean lines">>,
                    <<NEGATIVE_BASE, "photoreal">>,
                    <<1024, 1536>>, 30, 72, TRUE, 15, 30)
          [] OTHER ->
                StylePreset("anime",
                    <<"anime style, crisp lineart, cel shading, vibrant colors, studio quality">>,
                    <<NEGATIVE_BASE, "realistic skin pores">>,
                    <<1024, 1024>>, 28, 70, TRUE, 16, 33)]

\* ------------------------------------------------------------------------
\* prompt_builder (temp_prompt_builder.py)
\* ------------------------------------------------------------------------

FACE_KEYWORDS ==
    << <<"p", "o", "r", "t", "r", "a", "i", "t">>,
       <<"f", "a", "c", "e">>,
       <<"s", "e", "l", "f", "i", "e">>,
       <<"h", "e", "a", "d", "s", "h", "o", "t">>,
       <<"p", "e", "r", "s", "o", "n">>,
       <<"m", "o", "d", "e", "l">>,
       <<"b", "u", "s", "t">>,
       <<"u", "p", "p", "e", "r", " ", "b", "o", "d", "y">> >>

\* str.lower() on one character (the letters that occur in the prompts)
LowerChar(c) ==
    CASE c = "A" -> "a" [] c = "B" -> "b" [] c = "C" -> "c" [] c = "D" -> "d"
      [] c = "E" -> "e" [] c = "F" -> "f" [] c = "H" -> "h" [] c = "I" -> "i"
      [] c = "L" -> "l" [] c = "M" -> "m" [] c = "N" -> "n" [] c = "O" -> "o" [] c = "P" -> "p"
      [] c = "R" -> "r" [] c = "S" -> "s" [] c = "T" -> "t" [] c = "U" -> "u"
      [] c = "Y" -> "y" [] OTHER -> c

\* the prompt matched as it is written
LowerNone(s) == s

Lower(s) == [i \in 1..Len(s) |-> LowerChar(s[i])]

\* the Python test  k in p  on strings: k occurs as a contiguous substring
Contains(p, k) ==
    \E i \in 0..(Len(p) - Len(k)) : \A j \in 1..Len(k) : p[i + j] = k[j]

should_enhance(prompt) ==
    LET p == Lower(prompt)
    IN  \E n \in 1..Len(FACE_KEYWORDS) : Contains(p, FACE_KEYWORDS[n])

\* ", ".join(tags)
RECURSIVE Join(_)
Join(tags) ==
    IF Len(tags) = 0 THEN <<>>
    ELSE IF Len(tags) = 1 THEN <<tags[1]>>
    ELSE <<tags[1], ", ">> \o Join(Tail(tags))

\* the fallback taken from the last entry of the catalog
LookupStyleLast(style_key) ==
    IF style_key \in StyleKeys THEN STYLE_PRESETS[style_key]
    ELSE STYLE_PRESETS["anime"]

\* STYLE_PRESETS.get(style_key, STYLE_PRESETS["photoreal_portrait"])
LookupStyle(style_key) ==
    IF style_key \in StyleKeys THEN STYLE_PRESETS[style_key]
    ELSE STYLE_PRESETS["photoreal_portrait"]

\* the tags put before the user prompt
build_prompts_tags_first(user_prompt, style_key) ==
    LET style == LookupStyle(style_key)
    IN  [positive |-> Join(style.positive_tags) \o <<", ">> \o user_prompt,
         negative |-> Join(style.negative_tags)]

build_prompts(user_prompt, style_key) ==
    LET style == LookupStyle(style_key)
    IN  [positive |-> user_prompt \o <<", ">> \o Join(style.positive_tags),
         negative |-> Join(style.negative_tags)]

style_params(style_key) ==
    LET style == LookupStyle(style_key)
    IN  [width |-> style.resolution[1],
         height |-> style.resolution[2],
         steps |-> style.steps,
         cfg |-> style.cfg,
         hires |-> style.hires,
         hires_scale |-> style.hires_scale,
         hires_denoise |-> style.hires_denoise]


\* ------------------------------------------------------------------------
\* generator_api.py: images and their encodings
\* ------------------------------------------------------------------------

\* A PIL image: its size, the stage that produced its pixels, and whether the
\* pixels went through a lossy (JPEG) encoding on the way.
Image(width, height, stage, lossy) ==
    [width |-> width, height |-> height, stage |-> stage, lossy |-> lossy]

NoImage == Image(0, 0, "none", FALSE)

\* the format argument ignored: every image saved as JPEG
image_to_bytes_jpeg(img, fmt) ==
    [fmt |-> "JPEG", width |-> img.width, height |-> img.height, stage |-> img.stage,
     lossy |-> TRUE]

\* img.save(buf, format=...): the bytes of the picture in the given format
image_to_bytes(img, fmt) ==
    [fmt |-> fmt, width |-> img.width, height |-> img.height, stage |-> img.stage,
     lossy |-> img.lossy \/ fmt = "JPEG"]

\* Image.open(BytesIO(b64decode(b64))).convert("RGB")
b64_to_image(b) == Image(b.width, b.height, b.stage, b.lossy)

\* base64 is lossless: the text carries the bytes
bytes_to_b64(b) == b

\* the resample left out: the image keeps the size of the first pass
ResizeKeep(img, width, height) == img

\* img.resize((width, height), Image.LANCZOS)
Resize(img, width, height) == Image(width, height, "upscaled", img.lossy)

\* The pairs (x, scale in tenths), x a multiple of 8 up to 2048 and scale from
\* 1.0 to 4.0, whose exact quotient is a whole number while the double x / scale
\* is the double just below it (1.1, 2.2 and 2.7 are stored as doubles slightly
\* above the decimal)
FloatQuotientBelow ==
    { <<264, 11>>, <<440, 11>>, <<528, 11>>, <<792, 11>>, <<880, 11>>, <<968, 11>>,
      <<1056, 11>>, <<1584, 11>>, <<1672, 11>>, <<1760, 11>>, <<1848, 11>>, <<1936, 11>>,
      <<2024, 11>>, <<264, 22>>, <<440, 22>>, <<528, 22>>, <<792, 22>>, <<880, 22>>,
      <<968, 22>>, <<1056, 22>>, <<1584, 22>>, <<1672, 22>>, <<1760, 22>>, <<1848, 22>>,
      <<1936, 22>>, <<2024, 22>>, <<648, 27>>, <<1296, 27>>}

\* int(x / scale) with scale in tenths: a double division, then Python's int()
\* truncates (all operands >= 0)
IntDiv10(x, scale10) ==
    IF <<x, scale10>> \in FloatQuotientBelow
    THEN ((x * 10) \div scale10) - 1
    ELSE (x * 10) \div scale10

\* int(steps * f) rounding up
IntMul10Ceil(steps, f10) == ((steps * f10) + 9) \div 10

\* The pairs (steps, f in tenths), steps up to 200 and f one of 0.6 and 0.7,
\* whose exact product is a whole number while the double steps * f is the
\* double just below it
FloatProductBelow == {<<90, 7>>, <<170, 7>>, <<180, 7>>}

\* int(steps * f) with f in tenths: a double product, then int() truncates
IntMul10(steps, f10) ==
    IF <<steps, f10>> \in FloatProductBelow
    THEN ((steps * f10) \div 10) - 1
    ELSE (steps * f10) \div 10

Max(a, b) == IF a >= b THEN a ELSE b

\* hires_fix lines 94-96: the resolution of the first pass
\* the target multiplied by the scale where the code divides by it
LowResMultiplied(width, height, scale) ==
    [low_w |-> Max(IntMul10(width, scale), 768),
     low_h |-> Max(IntMul10(height, scale), 768)]

LowRes(width, height, scale) ==
    [low_w |-> Max(IntDiv10(width, scale), 768),
     low_h |-> Max(IntDiv10(height, scale), 768)]

\* What the service at ENHANCER_URL answers with when it succeeds, for an
\* enhancer that has CodeFormer and RealESRGAN installed (enhancer_api.enhance
\* with the model branches of restore_faces and upscale_image): the decoded
\* payload, faces restored when asked, upscaled for 2 and 4.
EnhancerAnswer(payload, face_restore, upscale) ==
    LET s == IF upscale \in {2, 4} THEN upscale ELSE 1
    IN  [fmt |-> "PNG", width |-> payload.width * s, height |-> payload.height * s,
         stage |-> "enhanced", lossy |-> payload.lossy]

\* The ways the call to the enhancer can end
EnhanceOutcomes ==
    {"ok", "serialize_error", "timeout", "transport_error", "http_status",
     "malformed_json", "missing_field", "undecodable_image"}

\* The body of the try block of maybe_enhance (lines 133-151): either the value
\* it returns or the exception it raises.
maybe_enhance_try(img, do_face, upscale, jpeg_proxy, outcome) ==
    LET payload_bytes == IF jpeg_proxy THEN image_to_bytes(img, "JPEG")
                         ELSE image_to_bytes(img, "PNG")
        sent == bytes_to_b64(payload_bytes)
    IN  IF outcome = "ok"
        THEN [exc |-> "none", val |-> b64_to_image(EnhancerAnswer(sent, do_face, upscale))]
        ELSE [exc |-> outcome, val |-> NoImage]

\* maybe_enhance with the handler narrowed to requests.RequestException: the
\* failures of serialising, of resp.json(), of the key lookup and of decoding escape
maybe_enhance_narrow(img, do_face, upscale, jpeg_proxy, outcome) ==
    LET r == maybe_enhance_try(img, do_face, upscale, jpeg_proxy, outcome)
    IN  IF r.exc = "none"
        THEN [raised |-> FALSE, img |-> r.val]
        ELSE [raised |-> r.exc \notin {"timeout", "transport_error", "http_status"},
              img |-> img]

\* maybe_enhance falling back to the payload it had serialised instead of img
maybe_enhance_payload(img, do_face, upscale, jpeg_proxy, outcome) ==
    LET r == maybe_enhance_try(img, do_face, upscale, jpeg_proxy, outcome)
        fmt == IF jpeg_proxy THEN "JPEG" ELSE "PNG"
    IN  IF r.exc = "none"
        THEN [raised |-> FALSE, img |-> r.val]
        ELSE [raised |-> FALSE, img |-> b64_to_image(image_to_bytes(img, fmt))]

\* maybe_enhance (lines 131-154): except Exception returns the original image
maybe_enhance(img, do_face, upscale, jpeg_proxy, outcome) ==
    LET r == maybe_enhance_try(img, do_face, upscale, jpeg_proxy, outcome)
    IN  IF r.exc = "none"
        THEN [raised |-> FALSE, img |-> r.val]
        ELSE [raised |-> FALSE, img |-> img]

\* ------------------------------------------------------------------------
\* firebase_utils.py
\* ------------------------------------------------------------------------

\* The ways save_png_bytes_and_get_url can go, given _initialized
SaveOutcomes(init) ==
    IF init THEN {"ok", "upload_error"}
    ELSE {"not_configured", "init_error", "ok", "upload_error"}

\* the body of the try block of save_png_bytes_and_get_url (lines 26-36): the
\* URL it returns (None is ""), or the exception raised inside it
save_try(png_bytes, filename_prefix, outcome) ==
    [exc |-> IF outcome \in {"init_error", "upload_error"} THEN outcome ELSE "none",
     url |-> IF outcome = "ok" THEN "public_url" ELSE "",
     initialized |-> outcome \in {"ok", "upload_error"}]

\* init_firebase() called before the try: a failing initialisation escapes
save_png_bytes_and_get_url_init_outside(png_bytes, filename_prefix, outcome) ==
    LET r == save_try(png_bytes, filename_prefix, outcome)
    IN  [raised |-> r.exc = "init_error", url |-> r.url, initialized |-> r.initialized]

\* save_png_bytes_and_get_url (lines 24-39): except Exception returns None
save_png_bytes_and_get_url(png_bytes, filename_prefix, outcome) ==
    LET r == save_try(png_bytes, filename_prefix, outcome)
    IN  [raised |-> FALSE, url |-> IF r.exc = "none" THEN r.url ELSE "",
         initialized |-> r.initialized]

\* ------------------------------------------------------------------------
\* generator_api.py: the process-wide pipelines and the request workers
\* ------------------------------------------------------------------------

\* _base_pipeline = None / _refiner_pipeline = None
NoneH == 0

\* the global name between  del _base_pipeline  and  _base_pipeline = None
Unbound == -1

Kinds == {"base", "refiner"}

Other(k) == IF k = "base" THEN "refiner" ELSE "base"

\* FastAPI runs the sync handler generate() on threadpool threads
Workers == {"w1", "w2"}

\* GenerateReq
GenerateReq(prompt, seed, style, face_enhance, upscale, jpeg_proxy) ==
    [prompt |-> prompt, seed |-> seed, style |-> style, face_enhance |-> face_enhance,
     upscale |-> upscale, jpeg_proxy |-> jpeg_proxy]

PromptCar == <<"a", " ", "r", "e", "d", " ", "c", "a", "r">>

PromptPortrait ==
    <<"p", "o", "r", "t", "r", "a", "i", "t", " ", "o", "f", " ", "a", " ",
      "p", "e", "r", "s", "o", "n">>

\* Requests of the concurrent specification: the two scenarios of the design
\* (hires-fix without enhancement, single pass with automatic face enhancement)
\* and a single pass with neither hires-fix nor enhancement
SampleRequests ==
    { GenerateReq(PromptCar, 42, "photoreal_portrait", "False", 0, TRUE),
      GenerateReq(PromptPortrait, 7, "watercolor", "None", 0, TRUE),
      GenerateReq(PromptCar, 42, "watercolor", "None", 0, FALSE) }

\* Requests of the serial specification
AllRequests ==
    { GenerateReq(p, sd, st, fe, up, jp) :
        p \in {PromptCar, PromptPortrait}, sd \in {42, 7},
        st \in {"photoreal_portrait", "watercolor", "editorial", "no_such_style"},
        fe \in {"None", "True", "False"}, up \in {0, 2, 4}, jp \in BOOLEAN }

NoReq == GenerateReq(<<>>, 0, "", "None", 0, FALSE)

NoMeta ==
    [prompt |-> <<>>, style |-> "", seed |-> 0, width |-> 0, height |-> 0, steps |-> 0,
     cfg |-> 0, hires |-> FALSE, hires_scale |-> 0, hires_denoise |-> 0,
     face_enhance |-> FALSE, upscale |-> 0]

NoResp == [status |-> "none", image |-> image_to_bytes(NoImage, "PNG"), public_url |-> "", meta |-> NoMeta]

\* an exception leaving generate(): FastAPI answers 500
ErrorResp == [status |-> "error", image |-> image_to_bytes(NoImage, "PNG"), public_url |-> "", meta |-> NoMeta]

NoLoc == [base |-> NoneH, refiner |-> NoneH]

IdleFrame ==
    [pc |-> "idle", req |-> NoReq, loc |-> NoLoc, img |-> NoImage, refined |-> NoImage,
     do_face |-> FALSE, enh |-> "not_called", trace |-> <<>>, calls |-> <<>>,
     error |-> "none", resp |-> NoResp]

GetPc == [base |-> "get_base", refiner |-> "get_refiner"]
LoadPc == [base |-> "load_base", refiner |-> "load_refiner"]
RetPc == [base |-> "ret_base", refiner |-> "ret_refiner"]
CallPc == [base |-> "call_base", refiner |-> "call_refiner"]
UnloadPc == [base |-> "unload_base", refiner |-> "unload_refiner"]
DelPc == [base |-> "del_base", refiner |-> "del_refiner"]
SetPc == [base |-> "set_base", refiner |-> "set_refiner"]

\* the refiner pass left out: after unload_base() straight to the enhancement
AfterUnloadNoRefine == [base |-> "decide", refiner |-> "decide"]

\* where generate() / hires_fix() continue after unload_base() / unload_refiner()
AfterUnload == [base |-> "get_refiner", refiner |-> "decide"]

InFlight(w) == wk[w].pc \notin {"idle", "done", "failed"}

Params(w) == style_params(wk[w].req.style)

\* the handles some name still refers to: the two globals and the workers' locals
UsedIds ==
    {handle[k] : k \in Kinds} \cup {wk[w].loc[k] : w \in Workers, k \in Kinds}

\* the object from_pretrained() builds: one no live name refers to
FreshId == CHOOSE i \in 1..(Cardinality(UsedIds) + 1) : i \notin UsedIds

Set(w, f) == wk' = [wk EXCEPT ![w] = f]

\* an exception propagates out of generate(): its frame (and locals) are gone
Raise(w, why) ==
    Set(w, [wk[w] EXCEPT !.pc = "failed", !.loc = NoLoc, !.error = why, !.resp = ErrorResp])

\* upgraded-sdxl-api.py: its request and the state of its process

\* GenerateRequest (lines 40-50)
GenerateRequest(seed, width, height, steps, cfg_scale, use_hires_fix, use_face_restoration) ==
    [seed |-> seed, width |-> width, height |-> height, steps |-> steps,
     cfg_scale |-> cfg_scale, use_hires_fix |-> use_hires_fix,
     use_face_restoration |-> use_face_restoration]

UpgRequests ==
    { GenerateRequest(sd, wh, wh, 35, 70, hf, fr) :
        sd \in {42, 7}, wh \in {1024, 768}, hf \in BOOLEAN, fr \in BOOLEAN }

NoUpgReq == GenerateRequest(0, 0, 0, 0, 0, FALSE, FALSE)

NoUpgResp == [status |-> "none", image |-> image_to_bytes(NoImage, "PNG"), seed |-> 0, model |-> ""]

\* the process before startup; retain_both tells which of the two services is deployed
UpgOff(retain_both) ==
    [retain_both |-> retain_both, pc |-> "off", req |-> NoUpgReq, img |-> NoImage,
     trace |-> <<>>, calls |-> <<>>, resp |-> NoUpgResp]

\* hires_fix called on its own: the arguments and the first-pass resolution
HiresArgs(width, height, scale) ==
    [pc |-> "args", width |-> width, height |-> height, scale |-> scale,
     low_w |-> 0, low_h |-> 0]

NoFn == [pc |-> "none", width |-> 0, height |-> 0, scale |-> 10, low_w |-> 0, low_h |-> 0]

\* target dimensions (multiples of 8) and hires scales (in tenths, >= 1.0)
HiresDims == {768, 880, 1024, 1280, 1536, 2048}

HiresScales == {10, 11, 15, 16, 17, 18, 20, 27}

\* ------------------------------------------------------------------------
\* carrot/scripts/ghibli/worker_app.py: the data of the Ghibli worker
\* ------------------------------------------------------------------------

\* the LoRA files a request can name; a request that names none carries ""
\* (None and "" take the same branch of `if lora:`)
GhLoras == {"ghibli.safetensors", "totoro.safetensors"}

NoLora == ""

\* the lora_alpha form field: absent, a number, not a number
GhAlphas == {"", "0.5", "abc"}

GhClients == {"c1", "c2"}

\* os.getpid() of the worker process
GhPid == "4242"

\* a diffusers pipeline object: whether it has been constructed, and the LoRAs
\* whose weights it carries (loaded as the "_session" adapter and fused)
GhPipeline(loaded, loras) == [loaded |-> loaded, loras |-> loras]

GhNoResp == [ok |-> FALSE, status_code |-> 0, outputPath |-> "", lora |-> FALSE, alpha |-> 0]

\* the locals of one call of generate_image
GhIdle ==
    [pc |-> "idle", id |-> 0, lora |-> NoLora, lora_alpha |-> "", image |-> FALSE,
     alpha |-> 0, pipe |-> "none", resp |-> GhNoResp]

\* the process after the module has been imported (lines 13-25), no file written
GhStart ==
    [txt2img |-> GhPipeline(TRUE, {}),
     img2img |-> GhPipeline(FALSE, {}),
     loaded_loras |-> {},
     files |-> {},
     frames |-> [c \in GhClients |-> GhIdle],
     answered |-> <<>>,
     n |-> 0]

Init ==
    /\ handle = [k \in Kinds |-> NoneH]
    /\ initialized = FALSE
    /\ wk = [w \in Workers |-> IdleFrame]
    /\ rng = 0
    /\ lastAcq = [k \in Kinds |-> NoneH]
    /\ nreq = 0
    /\ upg = UpgOff(FALSE)
    /\ fn = NoFn
    /\ gh = GhStart

\* generate() lines 157-163 and the first line of either shape (torch.manual_seed)
Start(w, r) ==
    /\ wk[w].pc = "idle"
    /\ Set(w, [IdleFrame EXCEPT !.pc = "get_base", !.req = r])
    /\ rng' = r.seed
    /\ UNCHANGED <<handle, initialized, lastAcq, upg, fn, gh>>

\* get_x_pipeline without the test: the pipeline is built on every call
CacheHitNever(h) == FALSE

\* the test  if _base_pipeline is None  (lines 25, 36) taken the other way round:
\* the cached pipeline is used
CacheHit(h) == h # NoneH

\* get_base_pipeline / get_refiner_pipeline: the test  _x_pipeline is None
GetPipeline(w, k) ==
    /\ wk[w].pc = GetPc[k]
    /\ IF handle[k] = Unbound
       THEN Raise(w, "NameError")
       ELSE Set(w, [wk[w] EXCEPT !.pc = IF CacheHit(handle[k]) THEN RetPc[k] ELSE LoadPc[k]])
    /\ UNCHANGED <<handle, initialized, rng, lastAcq, nreq, upg, fn, gh>>

\* the pipeline stored before it is moved to the device: a failing .to(device)
\* leaves the half-built pipeline in the global
FailedLoadStored(h) == 1

\* the global when from_pretrained(...).to(device) raises (lines 27-31, 38-42):
\* the assignment never happens
FailedLoad(h) == h

\* from_pretrained(...).to(device) and the store to the global; or its failure
LoadPipeline(w, k) ==
    /\ wk[w].pc = LoadPc[k]
    /\ \E ok \in BOOLEAN :
         IF ok
         THEN /\ handle' = [handle EXCEPT ![k] = FreshId]
              /\ Set(w, [wk[w] EXCEPT !.pc = RetPc[k], !.trace = Append(@, "construct_" \o k)])
         ELSE /\ Raise(w, "ModelUnavailable")
              /\ handle' = [handle EXCEPT ![k] = FailedLoad(@)]
    /\ UNCHANGED <<initialized, rng, lastAcq, nreq, upg, fn, gh>>

\* return _base_pipeline / return _refiner_pipeline: the global is read again
ReturnPipeline(w, k) ==
    /\ wk[w].pc = RetPc[k]
    /\ IF handle[k] = Unbound
       THEN /\ Raise(w, "NameError")
            /\ UNCHANGED lastAcq
       ELSE /\ Set(w, [wk[w] EXCEPT !.pc = CallPc[k], !.loc[k] = handle[k],
                                    !.trace = Append(@, "acquire_" \o k)])
            /\ lastAcq' = [lastAcq EXCEPT ![k] = handle[k]]
    /\ UNCHANGED <<handle, initialized, rng, nreq, upg, fn, gh>>

\* the base pipeline kept while the refiner is loaded: unload_base() left out
AfterBaseCallKeep == GetPc["refiner"]

\* what follows the base call and the resample: unload_base() (lines 112, 187)
AfterBaseCall == UnloadPc["base"]

\* what follows the refiner call: unload_refiner() (lines 127, 198)
AfterRefinerCall == UnloadPc["refiner"]

\* the failing call swallowed: the request goes on with the image it has
OnCallFailureSkip(w, k) == Set(w, [wk[w] EXCEPT !.pc = UnloadPc[k]])

\* the failing call caught by a handler that waits for the device to recover
OnCallFailureWait(w, k) == Set(w, [wk[w] EXCEPT !.pc = "waiting"])

\* base(...) / refiner(...) raising (lines 98-106, 116-124, 176-184, 191-195):
\* nothing catches the exception, it leaves hires_fix and generate
OnCallFailure(w, k) == Raise(w, "GenerationFailure")

\* The call of a pipeline (a blocking model invocation): its arguments as logged
ModelCall(model, width, height, steps, strength, cfg, image) ==
    [model |-> model, width |-> width, height |-> height, steps |-> steps,
     strength |-> strength, cfg |-> cfg, image |-> image, seed |-> rng]

\* a first pass of at least 40 steps
FirstPassStepsFloor40(steps) == Max(steps, 40)

\* num_inference_steps=max(steps, 28)  (line 103)
FirstPassSteps(steps) == Max(steps, 28)

\* base(...) in hires_fix (lines 93-109) and in generate (lines 175-184), with the
\* resample that follows it in hires_fix
CallBase(w) ==
    LET p == Params(w)
        low == LowRes(p.width, p.height, p.hires_scale)
        call == IF p.hires
                THEN ModelCall("base", low.low_w, low.low_h, FirstPassSteps(p.steps), 0, p.cfg, NoImage)
                ELSE ModelCall("base", p.width, p.height, p.steps, 0, p.cfg, NoImage)
        base_img == Image(call.width, call.height, "base", FALSE)
    IN  /\ wk[w].pc = CallPc["base"]
        /\ IF wk[w].loc["base"] = NoneH
           THEN /\ Raise(w, "TypeError")
                /\ UNCHANGED rng
           ELSE \E ok \in BOOLEAN :
                  IF ok
                  THEN /\ Set(w, [wk[w] EXCEPT
                                !.pc = AfterBaseCall,
                                !.calls = Append(@, call),
                                !.img = IF p.hires THEN Resize(base_img, p.width, p.height)
                                        ELSE base_img,
                                !.trace = @ \o (IF p.hires THEN <<"generate", "resample">>
                                                ELSE <<"generate">>)])
                       /\ UNCHANGED rng
                  ELSE /\ OnCallFailure(w, "base")
                       /\ UNCHANGED rng
        /\ UNCHANGED <<handle, initialized, lastAcq, nreq, upg, fn, gh>>

\* the polish run with all the steps of the preset
PolishStepsFull(steps) == steps

\* num_inference_steps=int(params["steps"] * 0.6)  (line 193)
PolishSteps(steps) == IntMul10(steps, 6)

\* refiner(...) in hires_fix (lines 115-124) and in generate (lines 190-195)
CallRefiner(w) ==
    LET p == Params(w)
        in == wk[w].img
        call == IF p.hires
                THEN ModelCall("refiner", in.width, in.height, IntMul10(p.steps, 7),
                               p.hires_denoise, p.cfg, in)
                ELSE ModelCall("refiner", in.width, in.height, PolishSteps(p.steps),
                               25, p.cfg, in)
        out == Image(in.width, in.height, "refined", in.lossy)
    IN  /\ wk[w].pc = CallPc["refiner"]
        /\ IF wk[w].loc["refiner"] = NoneH
           THEN /\ Raise(w, "TypeError")
                /\ UNCHANGED rng
           ELSE \E ok \in BOOLEAN :
                  IF ok
                  THEN /\ Set(w, [wk[w] EXCEPT
                                !.pc = AfterRefinerCall,
                                !.calls = Append(@, call),
                                !.img = out,
                                !.refined = out,
                                !.trace = Append(@, "refine")])
                       /\ UNCHANGED rng
                  ELSE /\ OnCallFailure(w, "refiner")
                       /\ UNCHANGED rng
        /\ UNCHANGED <<handle, initialized, lastAcq, nreq, upg, fn, gh>>

\* unload_refiner() pasted from unload_base() with the global left unchanged
UnloadTargetPasted(k) == "base"

\* the global unload_base() / unload_refiner() declares and clears (lines 46, 54)
UnloadTarget(k) == k

\* unload_base / unload_refiner: the test  _x_pipeline is not None
Unload(w, k) ==
    LET t == UnloadTarget(k)
    IN  /\ wk[w].pc = UnloadPc[k]
        /\ IF handle[t] = Unbound
           THEN Raise(w, "NameError")
           ELSE Set(w, [wk[w] EXCEPT
                    !.pc = IF handle[t] = NoneH THEN AfterUnload[k] ELSE DelPc[k],
                    !.trace = IF handle[t] = NoneH THEN Append(@, "release_" \o k) ELSE @])
        /\ UNCHANGED <<handle, initialized, rng, lastAcq, nreq, upg, fn, gh>>

\* del _base_pipeline / del _refiner_pipeline
UnloadDel(w, k) ==
    LET t == UnloadTarget(k)
    IN  /\ wk[w].pc = DelPc[k]
        /\ IF handle[t] = Unbound
           THEN /\ Raise(w, "NameError")
                /\ UNCHANGED <<handle, lastAcq>>
           ELSE /\ handle' = [handle EXCEPT ![t] = Unbound]
                /\ lastAcq' = [lastAcq EXCEPT ![t] = NoneH]
                /\ Set(w, [wk[w] EXCEPT !.pc = SetPc[k]])
        /\ UNCHANGED <<initialized, rng, nreq, upg, fn, gh>>

\* _base_pipeline = None; torch.cuda.empty_cache()  (and the same for the refiner)
UnloadSet(w, k) ==
    /\ wk[w].pc = SetPc[k]
    /\ handle' = [handle EXCEPT ![UnloadTarget(k)] = NoneH]
    /\ Set(w, [wk[w] EXCEPT !.pc = AfterUnload[k], !.trace = Append(@, "release_" \o k)])
    /\ UNCHANGED <<initialized, rng, lastAcq, nreq, upg, fn, gh>>

\* do_face = req.face_enhance or auto_face: an override of False is lost
DoFaceOr(face_enhance, auto_face) == IF face_enhance = "True" THEN TRUE ELSE auto_face

\* do_face = auto_face if req.face_enhance is None else req.face_enhance (line 202)
DoFace(face_enhance, auto_face) ==
    IF face_enhance = "None" THEN auto_face ELSE face_enhance = "True"

\* generate() lines 200-204: hires_fix has returned (its locals are gone);
\* decide whether the enhancer is called
Decide(w) ==
    LET r == wk[w].req
        auto_face == should_enhance(r.prompt)
        do_face == DoFace(r.face_enhance, auto_face)
    IN  /\ wk[w].pc = "decide"
        /\ Set(w, [wk[w] EXCEPT
                !.pc = IF do_face \/ r.upscale \in {2, 4} THEN "enhance" ELSE "package",
                !.do_face = do_face,
                !.loc = IF Params(w).hires THEN NoLoc ELSE @])
        /\ UNCHANGED <<handle, initialized, rng, lastAcq, nreq, upg, fn, gh>>

\* generate() line 205: img = maybe_enhance(...)
Enhance(w) ==
    /\ wk[w].pc = "enhance"
    /\ \E outcome \in EnhanceOutcomes :
         LET r == maybe_enhance(wk[w].img, wk[w].do_face, wk[w].req.upscale,
                                wk[w].req.jpeg_proxy, outcome)
         IN  IF r.raised
             THEN Raise(w, outcome)
             ELSE Set(w, [wk[w] EXCEPT !.pc = "package", !.img = r.img, !.enh = outcome,
                                       !.trace = Append(@, "enhance")])
    /\ UNCHANGED <<handle, initialized, rng, lastAcq, nreq, upg, fn, gh>>

\* the envelope with the URL of the stored object (its name carries the time of
\* the upload) copied into meta
EnvelopeUrlInMeta(req, params, do_face, png_bytes, public_url) ==
    [status |-> "ok",
     image |-> bytes_to_b64(png_bytes),
     public_url |-> public_url,
     meta |-> [prompt |-> req.prompt, style |-> req.style, seed |-> req.seed,
               width |-> params.width, height |-> params.height, steps |-> params.steps,
               cfg |-> params.cfg, hires |-> params.hires,
               hires_scale |-> params.hires_scale, hires_denoise |-> params.hires_denoise,
               face_enhance |-> do_face, upscale |-> req.upscale, url |-> public_url]]

\* generate() lines 212-229: the response envelope
Envelope(req, params, do_face, png_bytes, public_url) ==
    [status |-> "ok",
     image |-> bytes_to_b64(png_bytes),
     public_url |-> public_url,
     meta |-> [prompt |-> req.prompt, style |-> req.style, seed |-> req.seed,
               width |-> params.width, height |-> params.height, steps |-> params.steps,
               cfg |-> params.cfg, hires |-> params.hires,
               hires_scale |-> params.hires_scale, hires_denoise |-> params.hires_denoise,
               face_enhance |-> do_face, upscale |-> req.upscale]]

\* generate() lines 207-229: encode, save to Firebase, return
Package(w) ==
    /\ wk[w].pc = "package"
    /\ \E outcome \in SaveOutcomes(initialized) :
         LET png_bytes == image_to_bytes(wk[w].img, "PNG")
             saved == save_png_bytes_and_get_url(png_bytes, wk[w].req.style, outcome)
         IN  /\ initialized' = (initialized \/ saved.initialized)
             /\ IF saved.raised
                THEN Raise(w, outcome)
                ELSE Set(w, [wk[w] EXCEPT
                       !.pc = "done",
                       !.loc = NoLoc,
                       !.trace = Append(@, "package"),
                       !.resp = Envelope(wk[w].req, Params(w), wk[w].do_face, png_bytes,
                                         saved.url)])
    /\ UNCHANGED <<handle, rng, lastAcq, nreq, upg, fn, gh>>

\* the response has been sent: the thread goes back to the pool
Finish(w) ==
    /\ wk[w].pc \in {"done", "failed"}
    /\ Set(w, IdleFrame)
    /\ UNCHANGED <<handle, initialized, rng, lastAcq, nreq, upg, fn, gh>>

\* one step of the request worker w
Step(w) ==
    \/ \E k \in Kinds : GetPipeline(w, k)
    \/ \E k \in Kinds : LoadPipeline(w, k)
    \/ \E k \in Kinds : ReturnPipeline(w, k)
    \/ CallBase(w)
    \/ CallRefiner(w)
    \/ \E k \in Kinds : Unload(w, k)
    \/ \E k \in Kinds : UnloadDel(w, k)
    \/ \E k \in Kinds : UnloadSet(w, k)
    \/ Decide(w)
    \/ Enhance(w)
    \/ Package(w)
    \/ Finish(w)

\* The number of requests a behaviour of the concurrent specification starts
MaxRequests == 2

\* a request arrives while a threadpool thread is free
Arrive(w) ==
    /\ nreq < MaxRequests
    /\ \E r \in SampleRequests : Start(w, r)
    /\ nreq' = nreq + 1

\* Requests handled concurrently by the threadpool
Next ==
    \E w \in Workers : Arrive(w) \/ Step(w)

Spec == Init /\ [][Next]_vars

\* a request arrives at the single worker thread
ArriveSerial ==
    /\ \E r \in AllRequests : Start("w1", r)
    /\ UNCHANGED nreq

\* One request at a time (a single worker thread), any request
NextSerial ==
    ArriveSerial \/ Step("w1")

SpecSerial == Init /\ [][NextSerial]_vars

\* One request per style key (and one with a key outside the catalog), with and
\* without face enhancement
StyleRequests ==
    { GenerateReq(PromptCar, 42, st, fe, 0, TRUE) :
        st \in StyleKeys \cup {"no_such_style"}, fe \in {"True", "False"} }

ArriveStyles ==
    /\ \E r \in StyleRequests : Start("w1", r)
    /\ UNCHANGED nreq

NextStyles ==
    ArriveStyles \/ Step("w1")

\* One request at a time, every style; the worker thread keeps running: each
\* statement of generate() returns or raises (the model calls and the calls to
\* the enhancer and to storage block, the enhancer call with a timeout)
SpecStyles == Init /\ [][NextStyles]_vars /\ WF_vars(Step("w1"))

\* ------------------------------------------------------------------------
\* hires_fix as a function of its arguments
\* ------------------------------------------------------------------------

InitHires ==
    /\ handle = [k \in Kinds |-> NoneH]
    /\ initialized = FALSE
    /\ wk = [w \in Workers |-> IdleFrame]
    /\ rng = 0
    /\ lastAcq = [k \in Kinds |-> NoneH]
    /\ nreq = 0
    /\ upg = UpgOff(FALSE)
    /\ fn \in {HiresArgs(w, h, sc) : w \in HiresDims, h \in HiresDims, sc \in HiresScales}
    /\ gh = GhStart

\* hires_fix lines 94-96
HiresLow ==
    /\ fn.pc = "args"
    /\ LET low == LowRes(fn.width, fn.height, fn.scale)
       IN  fn' = [fn EXCEPT !.pc = "low", !.low_w = low.low_w, !.low_h = low.low_h]
    /\ UNCHANGED <<handle, initialized, wk, rng, lastAcq, nreq, upg, gh>>

NextHires == HiresLow

SpecHires == InitHires /\ [][NextHires]_vars

\* ------------------------------------------------------------------------
\* prompt_builder.py: its functions called one after the other
\* ------------------------------------------------------------------------

\* the arguments of the prompt builder's functions, and their results
PromptArgs(prompt, style_key) ==
    [pc |-> "args", prompt |-> prompt, style |-> style_key,
     positive |-> <<>>, negative |-> <<>>, params |-> style_params("photoreal_portrait"),
     auto_face |-> FALSE, exc |-> "none"]

PromptSamples ==
    { PromptCar, PromptPortrait, <<>>,
      <<"P", "O", "R", "T", "R", "A", "I", "T">>,
      <<"m", "y", " ", "S", "e", "l", "f", "i", "e">>,
      <<"U", "p", "p", "e", "r", " ", "B", "o", "d", "y">>,
      <<"u", "p", "p", "e", "r", "b", "o", "d", "y">>,
      <<"r", "o", "b", "u", "s", "t">>,
      <<"f", "a", "c", " ", "e">>,
      <<"H", "E", "A", "D", " ", "s", "h", "o", "t">>,
      <<"a", " ", "P", "e", "r", "S", "o", "N">>,
      <<"m", "o", "d", "e">> }

\* style keys: the catalog's, and keys that are not in it
StyleSamples ==
    StyleKeys \cup {"no_such_style", "", "Photoreal_Portrait", "anime ", "default"}

InitPrompt ==
    /\ handle = [k \in Kinds |-> NoneH]
    /\ initialized = FALSE
    /\ wk = [w \in Workers |-> IdleFrame]
    /\ rng = 0
    /\ lastAcq = [k \in Kinds |-> NoneH]
    /\ nreq = 0
    /\ upg = UpgOff(FALSE)
    /\ fn \in {PromptArgs(p, st) : p \in PromptSamples, st \in StyleSamples}
    /\ gh = GhStart

\* positive, negative = build_prompts(req.prompt, req.style)
CallBuildPrompts ==
    /\ fn.pc = "args"
    /\ LET r == build_prompts(fn.prompt, fn.style)
       IN  fn' = [fn EXCEPT !.pc = "built", !.positive = r.positive, !.negative = r.negative]
    /\ UNCHANGED <<handle, initialized, wk, rng, lastAcq, nreq, upg, gh>>

\* params = style_params(req.style)
CallStyleParams ==
    /\ fn.pc = "built"
    /\ fn' = [fn EXCEPT !.pc = "params", !.params = style_params(fn.style)]
    /\ UNCHANGED <<handle, initialized, wk, rng, lastAcq, nreq, upg, gh>>

\* auto_face = should_enhance(req.prompt)
CallShouldEnhance ==
    /\ fn.pc = "params"
    /\ fn' = [fn EXCEPT !.pc = "done", !.auto_face = should_enhance(fn.prompt)]
    /\ UNCHANGED <<handle, initialized, wk, rng, lastAcq, nreq, upg, gh>>

\* the functions are called again, with other arguments
CallAgain ==
    /\ fn.pc = "done"
    /\ fn' \in {PromptArgs(p, st) : p \in PromptSamples, st \in StyleSamples}
    /\ UNCHANGED <<handle, initialized, wk, rng, lastAcq, nreq, upg, gh>>

NextPrompt ==
    \/ CallBuildPrompts
    \/ CallStyleParams
    \/ CallShouldEnhance
    \/ CallAgain

SpecPrompt == InitPrompt /\ [][NextPrompt]_vars

\* ------------------------------------------------------------------------
\* upgraded-sdxl-api.py: both pipelines loaded at startup and kept
\* ------------------------------------------------------------------------

\* int(width * 1.5)
IntMul15(x) == (x * 15) \div 10

\* restore_faces_simple (lines 138-144): a placeholder, returns the image
restore_faces_simple(image) == image

\* image_to_base64 (lines 146-151): PNG, base64, data URL
image_to_base64(image) == bytes_to_b64(image_to_bytes(image, "PNG"))

\* generate() refining whenever the refiner is loaded, hires fix asked for or not
UpgRefinesAlways(req, refiner_pipe) == refiner_pipe # NoneH

\* generate() answers with the base image alone unless hires fix is asked for and
\* the refiner is loaded (line 199, and line 115 inside hires_fix)
UpgRefines(req, refiner_pipe) == req.use_hires_fix /\ refiner_pipe # NoneH

\* startup_event -> load_models (lines 52-93, 153-156): base, then refiner; a
\* failure is re-raised and the process does not come up
load_models ==
    /\ upg.retain_both
    /\ upg.pc = "off"
    /\ \E outcome \in {"ok", "base_fails", "refiner_fails"} :
         /\ handle' = [base |-> IF outcome = "base_fails" THEN NoneH ELSE 1,
                       refiner |-> IF outcome = "ok" THEN 2 ELSE NoneH]
         /\ upg' = [upg EXCEPT !.pc = IF outcome = "ok" THEN "ready" ELSE "crashed"]
    /\ UNCHANGED <<initialized, wk, rng, lastAcq, nreq, fn, gh>>

\* generate() lines 189-196 and torch.manual_seed of either branch
UpgArrive ==
    /\ upg.pc = "ready"
    /\ \E r \in UpgRequests :
         /\ upg' = IF handle["base"] = NoneH
                   THEN [upg EXCEPT !.pc = "done", !.req = r, !.trace = <<>>, !.calls = <<>>,
                                    !.img = NoImage,
                                    !.resp = [NoUpgResp EXCEPT !.status = "503"]]
                   ELSE [upg EXCEPT !.pc = "call_base", !.req = r, !.trace = <<>>,
                                    !.calls = <<>>, !.img = NoImage, !.resp = NoUpgResp]
         /\ rng' = r.seed
    /\ UNCHANGED <<handle, initialized, wk, lastAcq, nreq, fn, gh>>

\* base_pipe(...) (lines 104-112, 212-220), and the upscale of hires_fix (117-120)
UpgCallBase ==
    LET r == upg.req
        call == ModelCall("base", r.width, r.height, r.steps, 0, r.cfg_scale, NoImage)
        base_image == Image(r.width, r.height, "base", FALSE)
    IN  /\ upg.pc = "call_base"
        /\ \E ok \in BOOLEAN :
             upg' = IF ~ok
                    THEN [upg EXCEPT !.pc = "done", !.resp = [NoUpgResp EXCEPT !.status = "500"]]
                    ELSE IF UpgRefines(r, handle["refiner"])
                    THEN [upg EXCEPT !.pc = "call_refiner",
                                     !.calls = Append(@, call),
                                     !.img = Resize(base_image, IntMul15(r.width), IntMul15(r.height)),
                                     !.trace = @ \o <<"generate", "resample">>]
                    ELSE [upg EXCEPT !.pc = "respond",
                                     !.calls = Append(@, call),
                                     !.img = base_image,
                                     !.trace = Append(@, "generate")]
        /\ UNCHANGED <<handle, initialized, wk, rng, lastAcq, nreq, fn, gh>>

\* refiner_pipe(...) and the resize back to the requested size (lines 122-134)
UpgCallRefiner ==
    LET r == upg.req
        in == upg.img
        call == ModelCall("refiner", in.width, in.height, 25, 35, 70, in)
        refined_image == Image(in.width, in.height, "refined", in.lossy)
    IN  /\ upg.pc = "call_refiner"
        /\ \E ok \in BOOLEAN :
             upg' = IF ~ok
                    THEN [upg EXCEPT !.pc = "done", !.resp = [NoUpgResp EXCEPT !.status = "500"]]
                    ELSE [upg EXCEPT !.pc = "respond",
                                     !.calls = Append(@, call),
                                     !.img = [Resize(refined_image, r.width, r.height)
                                                EXCEPT !.stage = "refined"],
                                     !.trace = @ \o <<"refine", "resample">>]
        /\ UNCHANGED <<handle, initialized, wk, rng, lastAcq, nreq, fn, gh>>

\* generate() lines 222-236: optional face restoration, encode, answer
UpgRespond ==
    LET image == IF upg.req.use_face_restoration THEN restore_faces_simple(upg.img)
                 ELSE upg.img
    IN  /\ upg.pc = "respond"
        /\ upg' = [upg EXCEPT !.pc = "done",
                              !.trace = Append(@, "package"),
                              !.resp = [status |-> "ok", image |-> image_to_base64(image),
                                        seed |-> upg.req.seed, model |-> "SDXL"]]
        /\ UNCHANGED <<handle, initialized, wk, rng, lastAcq, nreq, fn, gh>>

\* the response has been sent; the event loop takes the next request
UpgFinish ==
    /\ upg.pc = "done"
    /\ upg' = [upg EXCEPT !.pc = "ready"]
    /\ UNCHANGED <<handle, initialized, wk, rng, lastAcq, nreq, fn, gh>>

\* generator_api deployed: a request arrives at its worker
ArriveAlwaysRelease ==
    /\ ~upg.retain_both
    /\ ArriveSerial

\* Either service deployed, one request at a time
InitModes ==
    /\ handle = [k \in Kinds |-> NoneH]
    /\ initialized = FALSE
    /\ wk = [w \in Workers |-> IdleFrame]
    /\ rng = 0
    /\ lastAcq = [k \in Kinds |-> NoneH]
    /\ nreq = 0
    /\ upg \in {UpgOff(b) : b \in BOOLEAN}
    /\ fn = NoFn
    /\ gh = GhStart

NextModes ==
    \/ ArriveAlwaysRelease
    \/ Step("w1")
    \/ load_models
    \/ UpgArrive
    \/ UpgCallBase
    \/ UpgCallRefiner
    \/ UpgRespond
    \/ UpgFinish

SpecModes == InitModes /\ [][NextModes]_vars

\* ------------------------------------------------------------------------
\* carrot/scripts/ghibli/worker_app.py: the /generate-image handler
\* ------------------------------------------------------------------------

MaxGhibliRequests == 3

\* lines 63-68: float(lora_alpha), 1.0 when absent or not a number (in tenths)
GhAlpha(lora_alpha) == IF lora_alpha = "0.5" THEN 5 ELSE 10

\* apply_lora (lines 27-40): nothing for an empty path; otherwise the weights are
\* loaded into the pipeline it was given and fused, and the path is noted in
\* _loaded_loras; any failure is raised as a RuntimeError
apply_lora(pipe, lora_path, alpha, ok) ==
    IF lora_path = NoLora
    THEN [exc |-> "none", pipe |-> pipe, loaded |-> {}]
    ELSE IF ok
         THEN [exc |-> "none",
               pipe |-> [pipe EXCEPT !.loras = @ \cup {lora_path}],
               loaded |-> {lora_path}]
         ELSE [exc |-> "RuntimeError", pipe |-> pipe, loaded |-> {}]

\* out_path = f"/srv/outputs/out-{os.getpid()}.png"  (line 93)
out_path == "/srv/outputs/out-" \o GhPid \o ".png"

\* f"/files/{os.path.basename(out_path)}"  (line 95)
outputPath == "/files/out-" \o GhPid \o ".png"

\* app.mount("/files", StaticFiles(directory="/srv/outputs"))  (line 99): the
\* file a URL path under /files is served from
GhServed(path) == IF path = outputPath THEN out_path ELSE "/srv/outputs/none"

\* out.save(out_path): the file is created or overwritten
GhSave(files, path, img) ==
    {f \in files : f.path # path} \cup {[path |-> path, img |-> img]}

\* except Exception: JSONResponse({"ok": False, ...}, status_code=500)  (lines 96-97)
GhFail(g, c) ==
    [g EXCEPT !.frames[c].pc = "failed",
              !.frames[c].resp = [GhNoResp EXCEPT !.status_code = 500]]

\* lines 85-95 after the upload has been read: the pipeline call, the save and
\* the answer; the pipeline is the shared object, with the weights it has now
GhGenerate(g, c, ok) ==
    LET f == g.frames[c]
        out == [id |-> f.id, pipe |-> f.pipe, loras |-> g[f.pipe].loras]
        resp == [ok |-> TRUE, status_code |-> 200, outputPath |-> outputPath,
                 lora |-> f.lora # NoLora, alpha |-> f.alpha]
    IN  IF ok
        THEN [g EXCEPT !.files = GhSave(@, out_path, out),
                       !.frames[c].pc = "done",
                       !.frames[c].resp = resp,
                       !.answered = Append(@, [id |-> f.id, lora |-> f.lora,
                                               outputPath |-> outputPath, img |-> out])]
        ELSE GhFail(g, c)

\* a client posts a request; the handler has not started to run
GhArrive(c) ==
    /\ gh.n < MaxGhibliRequests
    /\ gh.frames[c].pc \in {"idle", "done", "failed"}
    /\ \E lora \in GhLoras \cup {NoLora}, lora_alpha \in GhAlphas, image \in BOOLEAN :
          gh' = [gh EXCEPT !.n = @ + 1,
                           !.frames[c] = [GhIdle EXCEPT !.pc = "start", !.id = gh.n + 1,
                                                        !.lora = lora,
                                                        !.lora_alpha = lora_alpha,
                                                        !.image = image]]
    /\ UNCHANGED <<handle, initialized, wk, rng, lastAcq, nreq, upg, fn>>

\* generate_image from its entry (line 62) to `await image.read()` (line 86)
\* for a request with an upload, to its return for a request without one
GhBegin(c) ==
    /\ gh.frames[c].pc = "start"
    /\ \E built \in BOOLEAN, lora_ok \in BOOLEAN, ok \in BOOLEAN :
          LET f == gh.frames[c]
              alpha == GhAlpha(f.lora_alpha)
              name == IF f.image THEN "img2img" ELSE "txt2img"
              construct == f.image /\ ~gh.img2img.loaded
              g1 == IF construct /\ built
                    THEN [gh EXCEPT !.img2img = GhPipeline(TRUE, {})]
                    ELSE gh
              ap == apply_lora(g1[name], f.lora, alpha, lora_ok)
              g2 == [g1 EXCEPT ![name] = ap.pipe,
                               !.loaded_loras = @ \cup ap.loaded,
                               !.frames[c].alpha = alpha,
                               !.frames[c].pipe = name]
          IN  gh' = IF construct /\ ~built THEN GhFail(gh, c)
                    ELSE IF ap.exc # "none" THEN GhFail(g1, c)
                    ELSE IF f.image THEN [g2 EXCEPT !.frames[c].pc = "reading"]
                    ELSE GhGenerate(g2, c, ok)
    /\ UNCHANGED <<handle, initialized, wk, rng, lastAcq, nreq, upg, fn>>

\* generate_image resumed after `await image.read()` (lines 86-95)
GhResume(c) ==
    /\ gh.frames[c].pc = "reading"
    /\ \E ok \in BOOLEAN : gh' = GhGenerate(gh, c, ok)
    /\ UNCHANGED <<handle, initialized, wk, rng, lastAcq, nreq, upg, fn>>

NextGhibli ==
    \E c \in GhClients : GhArrive(c) \/ GhBegin(c) \/ GhResume(c)

\* The worker process serving up to two clients at a time on its event loop
SpecGhibli == Init /\ [][NextGhibli]_vars

\* ------------------------------------------------------------------------
\* enhancer_api.py and simple_enhancer_api.py: the /enhance handlers
\* ------------------------------------------------------------------------

\* lines 10-11: both features are switched off in the module
REALESRGAN_AVAILABLE == FALSE

CODEFORMER_AVAILABLE == FALSE

\* load_codeformer (lines 20-29) and get_esrgan (lines 31-40): the exception
\* they raise, "none" when they return the model
load_codeformer == IF ~CODEFORMER_AVAILABLE THEN "ImportError" ELSE "none"

get_esrgan(scale) == IF ~REALESRGAN_AVAILABLE THEN "ImportError" ELSE "none"

\* restore_faces without its availability check
restore_faces_unguarded(image, weight, faces) ==
    IF load_codeformer # "none" THEN [exc |-> load_codeformer, img |-> NoImage]
    ELSE IF ~faces THEN [exc |-> "none", img |-> image]
    ELSE [exc |-> "none", img |-> Image(image.width, image.height, "restored", image.lossy)]

\* restore_faces (lines 57-80); faces: whether the detector finds a face
restore_faces(image, weight, faces) ==
    IF ~CODEFORMER_AVAILABLE THEN [exc |-> "none", img |-> image]
    ELSE IF load_codeformer # "none" THEN [exc |-> load_codeformer, img |-> NoImage]
    ELSE IF ~faces THEN [exc |-> "none", img |-> image]
    ELSE [exc |-> "none", img |-> Image(image.width, image.height, "restored", image.lossy)]

\* upscale_image (lines 82-88)
upscale_image(image, scale) ==
    IF ~REALESRGAN_AVAILABLE THEN [exc |-> "none", img |-> image]
    ELSE IF get_esrgan(scale) # "none" THEN [exc |-> get_esrgan(scale), img |-> NoImage]
    ELSE [exc |-> "none",
          img |-> Image(image.width * scale, image.height * scale, "upscaled", image.lossy)]

\* image_to_b64 (lines 52-55)
image_to_b64(img, fmt) == bytes_to_b64(image_to_bytes(img, fmt))

EnhanceReq(image_base64, face_restore, codeformer_weight, upscale) ==
    [image_base64 |-> image_base64, face_restore |-> face_restore,
     codeformer_weight |-> codeformer_weight, upscale |-> upscale]

\* the payloads a client sends: the PNG or JPEG bytes of a picture
EnhancePayloads ==
    { bytes_to_b64(image_to_bytes(Image(1024, h, "refined", FALSE), f)) :
        h \in {1024, 1280}, f \in {"PNG", "JPEG"} }

\* upscale is an int the model does not validate
EnhanceRequests ==
    { EnhanceReq(b, fr, cw, up) :
        b \in EnhancePayloads, fr \in BOOLEAN, cw \in {6, 10}, up \in {0, 1, 2, 3, 4, 8} }

EnhancerServices == {"enhancer_api", "simple_enhancer_api"}

EnhNoResp == [status_code |-> 0, enhanced_base64 |-> image_to_b64(NoImage, "PNG")]

EnhanceArgs(service, req) ==
    [pc |-> "args", service |-> service, req |-> req, img |-> NoImage,
     trace |-> <<>>, resp |-> EnhNoResp]

InitEnhancer ==
    /\ handle = [k \in Kinds |-> NoneH]
    /\ initialized = FALSE
    /\ wk = [w \in Workers |-> IdleFrame]
    /\ rng = 0
    /\ lastAcq = [k \in Kinds |-> NoneH]
    /\ nreq = 0
    /\ upg = UpgOff(FALSE)
    /\ fn \in {EnhanceArgs(sv, r) : sv \in EnhancerServices, r \in EnhanceRequests}
    /\ gh = GhStart

\* an exception escaping the handler: FastAPI answers 500
EnhancerRaise == [fn EXCEPT !.pc = "failed", !.resp = [EnhNoResp EXCEPT !.status_code = 500]]

\* enhancer_api.enhance line 92
EnhancerDecode ==
    /\ fn.pc = "args" /\ fn.service = "enhancer_api"
    /\ fn' = [fn EXCEPT !.pc = "restore", !.img = b64_to_image(fn.req.image_base64),
                        !.trace = Append(@, "decode")]
    /\ UNCHANGED <<handle, initialized, wk, rng, lastAcq, nreq, upg, gh>>

\* enhancer_api.enhance lines 94-95
EnhancerRestore ==
    /\ fn.pc = "restore"
    /\ IF fn.req.face_restore
       THEN \E faces \in BOOLEAN :
              LET r == restore_faces(fn.img, fn.req.codeformer_weight, faces)
              IN  fn' = IF r.exc # "none" THEN EnhancerRaise
                        ELSE [fn EXCEPT !.pc = "upscale", !.img = r.img,
                                        !.trace = Append(@, "restore_faces")]
       ELSE fn' = [fn EXCEPT !.pc = "upscale"]
    /\ UNCHANGED <<handle, initialized, wk, rng, lastAcq, nreq, upg, gh>>

\* enhancer_api.enhance lines 97-98
EnhancerUpscale ==
    /\ fn.pc = "upscale"
    /\ IF fn.req.upscale \in {2, 4}
       THEN LET r == upscale_image(fn.img, fn.req.upscale)
            IN  fn' = IF r.exc # "none" THEN EnhancerRaise
                      ELSE [fn EXCEPT !.pc = "respond", !.img = r.img,
                                      !.trace = Append(@, "upscale_image")]
       ELSE fn' = [fn EXCEPT !.pc = "respond"]
    /\ UNCHANGED <<handle, initialized, wk, rng, lastAcq, nreq, upg, gh>>

\* enhancer_api.enhance line 100
EnhancerRespond ==
    /\ fn.pc = "respond"
    /\ fn' = [fn EXCEPT !.pc = "done",
                        !.resp = [status_code |-> 200,
                                  enhanced_base64 |-> image_to_b64(fn.img, "PNG")]]
    /\ UNCHANGED <<handle, initialized, wk, rng, lastAcq, nreq, upg, gh>>

\* simple_enhancer_api.enhance (lines 23-31)
SimpleEnhance ==
    /\ fn.pc = "args" /\ fn.service = "simple_enhancer_api"
    /\ LET img == b64_to_image(fn.req.image_base64)
       IN  fn' = [fn EXCEPT !.pc = "done", !.img = img,
                           !.trace = Append(@, "decode"),
                           !.resp = [status_code |-> 200,
                                     enhanced_base64 |-> image_to_b64(img, "PNG")]]
    /\ UNCHANGED <<handle, initialized, wk, rng, lastAcq, nreq, upg, gh>>

NextEnhancer ==
    EnhancerDecode \/ EnhancerRestore \/ EnhancerUpscale \/ EnhancerRespond \/ SimpleEnhance

\* One request to one of the two enhancer services
SpecEnhancer == InitEnhancer /\ [][NextEnhancer]_vars

\* ------------------------------------------------------------------------
\* Properties of generator_api.py
\* ------------------------------------------------------------------------

Resident(k) == handle[k] \notin {NoneH, Unbound}

Has(seq, e) == \E i \in 1..Len(seq) : seq[i] = e

\* the position of the first e in seq (0 when absent)
Pos(seq, e) == IF Has(seq, e) THEN CHOOSE i \in 1..Len(seq) : seq[i] = e /\ \A j \in 1..(i - 1) : seq[j] # e ELSE 0

EnhanceFailed(w) == wk[w].enh \in EnhanceOutcomes \ {"ok"}

\* C1: under the always-release policy the base handle and the refiner handle
\* are never both resident, in any state of any sequence of requests, whether
\* the requests succeed or fail part-way.
C1_NeverBothResident ==
    ~(Resident("base") /\ Resident("refiner"))

\* C2: when a request has ended in a fatal failure, no handle that request
\* acquired is still resident.
C2_FailureLeavesNoHandle ==
    \A w \in Workers : \A k \in Kinds :
        (wk[w].pc = "failed" /\ Has(wk[w].trace, "acquire_" \o k)) => ~Resident(k)

\* C3: no request releases (unloads) a handle while another request is between
\* acquiring that handle and finishing its model call with it.
C3_NoReleaseWhileInUse ==
    [][\A w \in Workers : \A k \in Kinds :
          (wk[w].pc = CallPc[k] /\ wk[w].loc[k] # NoneH /\ handle[k] = wk[w].loc[k])
              => handle'[k] # Unbound]_vars

\* C4: maybe_enhance never raises; whenever the external enhancement call fails
\* (any of the failure outcomes) the value it returns is the image it was given.
C4_EnhanceFailureReturnsInput ==
    \A w \in Workers :
        /\ wk[w].error \notin EnhanceOutcomes
        /\ (wk[w].pc = "package" /\ EnhanceFailed(w)) => wk[w].img = wk[w].refined

\* a failed enhancement call has returned
C4_Witness ==
    \E w \in Workers :
        /\ wk[w].pc = "package" /\ wk[w].enh = "undecodable_image"
        /\ wk[w].req.jpeg_proxy /\ wk[w].img = wk[w].refined /\ wk[w].img.stage = "refined"

\* C5: once synthesis and refinement have succeeded the request does not fail and
\* can always take its next step until it has returned; it returns a success
\* envelope whatever the outcome of the enhancement call, and when that call
\* failed the packaged image is the PNG of the refined image.
C5_EnhancementNeverFailsRequest ==
    \A w \in Workers :
        Has(wk[w].trace, "refine") =>
            /\ wk[w].pc # "failed"
            /\ wk[w].pc # "done" => ENABLED Step(w)
            /\ wk[w].pc = "done" =>
                /\ wk[w].resp.status = "ok"
                /\ EnhanceFailed(w) => wk[w].resp.image = image_to_bytes(wk[w].refined, "PNG")

\* a request whose enhancement call timed out has returned a success envelope
C5_Witness ==
    \E w \in Workers :
        /\ wk[w].pc = "done" /\ wk[w].enh = "timeout" /\ wk[w].req.jpeg_proxy
        /\ wk[w].resp.status = "ok" /\ wk[w].resp.image.stage = "refined"

\* C6: when enhancement is attempted and the external call fails, the returned
\* metadata differs from that of an otherwise identical request whose
\* enhancement was applied.
C6_MetadataMarksNotApplied ==
    \A w \in Workers : \A v \in Workers :
        (/\ wk[w].pc = "done" /\ wk[v].pc = "done"
         /\ wk[w].req = wk[v].req
         /\ EnhanceFailed(w) /\ wk[v].enh = "ok")
            => wk[w].resp.meta # wk[v].resp.meta

\* C7: an acquire that follows an acquire of the same kind, with no release of
\* that kind in between, returns the handle the earlier one returned and has
\* constructed nothing.
C7_AcquireIsCached ==
    [][\A w \in Workers : \A k \in Kinds :
          (wk[w].pc = RetPc[k] /\ wk'[w].pc = CallPc[k] /\ lastAcq[k] # NoneH)
              => /\ wk'[w].loc[k] = lastAcq[k]
                 /\ handle'[k] = lastAcq[k]
                 /\ ~Has(wk'[w].trace, "construct_" \o k)]_vars

\* a second acquire has returned the handle a failed request had left resident
C7_Witness ==
    \E w \in Workers :
        /\ wk[w].pc = CallPc["base"] /\ wk[w].loc["base"] # NoneH
        /\ ~Has(wk[w].trace, "construct_base")

\* C8: release is synchronous: when unload returns, the handle of that kind is
\* None and the other kind's handle is what it was; the next acquire of that
\* kind constructs, and the acquire of the other kind that follows finds its
\* global bound (it does not wait and does not raise).
C8_ReleaseSynchronous ==
    [][\A w \in Workers : \A k \in Kinds :
          /\ (wk[w].pc \in {UnloadPc[k], DelPc[k], SetPc[k]} /\ wk'[w].pc # "failed")
                => handle'[Other(k)] = handle[Other(k)]
          /\ (wk[w].pc \in {UnloadPc[k], SetPc[k]} /\ wk'[w].pc = AfterUnload[k])
                => /\ handle'[k] = NoneH
                   /\ lastAcq'[k] = NoneH
          /\ (wk[w].pc \in {UnloadPc["base"], SetPc["base"]} /\ wk'[w].pc = GetPc["refiner"])
                => handle'["refiner"] # Unbound
          /\ (wk[w].pc = GetPc[k] /\ lastAcq[k] = NoneH /\ wk'[w].pc # "failed")
                => wk'[w].pc = LoadPc[k]]_vars

\* unload_base has returned while a refiner a failed request left behind is resident
C8_Witness ==
    \E w \in Workers :
        /\ wk[w].pc = GetPc["refiner"] /\ Has(wk[w].trace, "release_base")
        /\ handle["base"] = NoneH /\ Resident("refiner")

\* C9: in both shapes, within one request unload_base has returned before the
\* refiner is acquired (no base handle is resident while the request acquires
\* and calls the refiner), and unload_refiner has returned before the request
\* moves on to enhancement and packaging.
C9_ReleaseBeforeAcquire ==
    \A w \in Workers :
        LET t == wk[w].trace
        IN  /\ wk[w].pc \in {GetPc["refiner"], LoadPc["refiner"], RetPc["refiner"], CallPc["refiner"]}
                => /\ Has(t, "release_base")
                   /\ handle["base"] = NoneH
            /\ Has(t, "acquire_refiner")
                => /\ Has(t, "release_base")
                   /\ Pos(t, "release_base") < Pos(t, "acquire_refiner")
            /\ wk[w].pc \in {"decide", "enhance", "package", "done"}
                => /\ Has(t, "release_refiner")
                   /\ Pos(t, "acquire_refiner") < Pos(t, "release_refiner")
            /\ (Has(t, "enhance") \/ Has(t, "package"))
                => /\ Has(t, "release_refiner")
                   /\ \A e \in {"enhance", "package"} :
                        Has(t, e) => Pos(t, "release_refiner") < Pos(t, e)

\* both shapes have released the base before calling the refiner
C9_Witness ==
    \E w \in Workers :
        /\ wk[w].pc = CallPc["refiner"] /\ Params(w).hires
        /\ Has(wk[w].trace, "resample") /\ Has(wk[w].trace, "release_base")
        /\ handle["base"] = NoneH /\ Resident("refiner")

\* ------------------------------------------------------------------------
\* Properties of the two memory disciplines
\* ------------------------------------------------------------------------

\* the model stages of a request, in order
ModelStages(trace) == SelectSeq(trace, LAMBDA e : e \in {"generate", "refine"})

AcquiringRefiner(w) ==
    wk[w].pc \in {GetPc["refiner"], LoadPc["refiner"], RetPc["refiner"], CallPc["refiner"]}

UpgAnswered == upg.pc = "done" /\ upg.resp.status = "ok"

C11_ConstructFailureFatal ==
    [][\A w \in Workers : \A k \in Kinds :
          /\ (wk[w].pc = LoadPc[k] /\ wk'[w].pc # RetPc[k] /\ wk'[w] # wk[w])
                => /\ wk'[w].pc = "failed"
                   /\ wk'[w].error = "ModelUnavailable"
                   /\ wk'[w].resp = ErrorResp
                   /\ wk'[w].trace = wk[w].trace
                   /\ wk'[w].calls = wk[w].calls
                   /\ handle'[k] = NoneH
          /\ (wk[w].pc = "failed" /\ wk'[w] # wk[w])
                => wk'[w] = IdleFrame]_vars

\* the refiner could not be constructed after a successful base call
C11_Witness ==
    \E w \in Workers :
        /\ wk[w].pc = "failed" /\ wk[w].error = "ModelUnavailable"
        /\ Has(wk[w].trace, "release_base") /\ ~Has(wk[w].trace, "construct_refiner")
        /\ handle["refiner"] = NoneH

\* C12: the constructor of a kind is never running while a pipeline of that
\* kind is resident or while another request is running the same constructor
\* (so at most one instance of each kind ever exists).
C12_AtMostOneInstance ==
    \A k \in Kinds : \A w \in Workers :
        wk[w].pc = LoadPc[k] =>
            /\ ~Resident(k)
            /\ \A v \in Workers \ {w} : wk[v].pc # LoadPc[k]

\* the request of worker w is between its first acquire and its last release
InPipeline(w) ==
    \E k \in Kinds :
        wk[w].pc \in {GetPc[k], LoadPc[k], RetPc[k], CallPc[k], UnloadPc[k], DelPc[k], SetPc[k]}

\* C13: at most one generation pipeline is in flight: no request is between its
\* first acquire and its last release while another request is.
C13_OnePipelineInFlight ==
    \A w \in Workers : \A v \in Workers \ {w} : ~(InPipeline(w) /\ InPipeline(v))

\* C14: a failing base or refiner call ends the request as a failure: the call
\* is not issued again (with the same or a lower step count), no later stage
\* runs, the answer is the error envelope; a success envelope is only returned
\* by a request that made each of the two calls exactly once, both succeeding.
C14_FailingCallFatal ==
    [][\A w \in Workers : \A k \in Kinds :
          /\ (wk[w].pc = CallPc[k] /\ wk'[w] # wk[w])
                => \/ /\ wk'[w].pc = "failed"
                      /\ wk'[w].resp = ErrorResp
                      /\ wk'[w].calls = wk[w].calls
                      /\ wk'[w].trace = wk[w].trace
                   \/ /\ wk'[w].pc = UnloadPc[k]
                      /\ Len(wk'[w].calls) = Len(wk[w].calls) + 1
                      /\ wk'[w].calls[Len(wk'[w].calls)].model = k
          /\ (wk[w].pc = "failed" /\ wk'[w] # wk[w]) => wk'[w].pc = "idle"
          /\ wk'[w].resp.status = "ok"
                => /\ Len(wk'[w].calls) = 2
                   /\ wk'[w].calls[1].model = "base"
                   /\ wk'[w].calls[2].model = "refiner"
                   /\ ModelStages(wk'[w].trace) = <<"generate", "refine">>]_vars

\* the refiner call of a hires-fix request has failed after its base call
C14_Witness ==
    \E w \in Workers :
        /\ wk[w].pc = "failed" /\ wk[w].error = "GenerationFailure"
        /\ Len(wk[w].calls) = 1 /\ Has(wk[w].trace, "acquire_refiner")
        /\ Params(w).hires

\* ------------------------------------------------------------------------
\* The first-pass resolution of the two-pass shape
\* ------------------------------------------------------------------------

Clamped(w) ==
    /\ Params(w).hires
    /\ Len(wk[w].calls) >= 1
    /\ wk[w].calls[1].width = 768
    /\ (Params(w).width * 10) \div Params(w).hires_scale < 768

\* C16: when the first pass was clamped to 768 the hires_scale of the returned
\* metadata is the scale actually applied, target / low (to the nearest tenth),
\* and not the nominal hires_scale of the preset.
C16_EffectiveScaleRecorded ==
    \A w \in Workers :
        (wk[w].pc = "done" /\ wk[w].resp.status = "ok" /\ Clamped(w)) =>
            LET low == wk[w].calls[1].width
                target == wk[w].resp.meta.width
                recorded == wk[w].resp.meta.hires_scale
            IN  /\ recorded * low <= target * 10 + low
                /\ recorded * low >= target * 10 - low

\* ------------------------------------------------------------------------
\* The shape of a request and the order of its stages
\* ------------------------------------------------------------------------

StageRank ==
    [generate |-> 1, resample |-> 2, refine |-> 3, enhance |-> 4, package |-> 5]

\* the stages of a request, in the order they ran
Stages(trace) == SelectSeq(trace, LAMBDA e : e \in DOMAIN StageRank)

\* what the request asks for: the override when given, the keyword heuristic otherwise
WantsFace(req) ==
    IF req.face_enhance = "None" THEN should_enhance(req.prompt) ELSE req.face_enhance = "True"

EnhancerInvoked(w) == wk[w].pc = "enhance" \/ wk[w].enh # "not_called"

C20_PersistenceNeverFails ==
    [][\A w \in Workers :
          (wk[w].pc = "package" /\ wk'[w] # wk[w]) =>
              /\ wk'[w].pc = "done"
              /\ wk'[w].error = "none"
              /\ wk'[w].resp.status = "ok"
              /\ wk'[w].resp.image = image_to_bytes(wk[w].img, "PNG")
              /\ wk'[w].resp.public_url \in {"", "public_url"}
              /\ DOMAIN wk'[w].resp.meta = DOMAIN NoMeta
              /\ wk'[w].resp.meta.prompt = wk[w].req.prompt
              /\ wk'[w].resp.meta.seed = wk[w].req.seed
              /\ wk'[w].resp.meta.style = wk[w].req.style]_vars

\* a request has returned a success envelope without a URL although storage had
\* been initialised: its upload failed
C20_Witness ==
    \E w \in Workers :
        /\ wk[w].pc = "done" /\ wk[w].resp.status = "ok"
        /\ wk[w].resp.public_url = "" /\ wk[w].resp.image.stage = "refined"
        /\ initialized

\* ------------------------------------------------------------------------
\* The style catalog and the prompt builder
\* ------------------------------------------------------------------------

\* C21: for a style key that is not in the catalog, build_prompts and
\* style_params raise nothing and return what they return for
\* photoreal_portrait: the same positive and negative prompt for the same user
\* prompt, and the same parameters (1024x1024, 35 steps, cfg 7.0, hires on,
\* hires_scale 2.0, hires_denoise 0.35).
C21_UnknownStyleIsDefault ==
    (fn.pc \in {"built", "params", "done"} /\ fn.style \notin StyleKeys) =>
        /\ fn.exc = "none"
        /\ fn.positive = build_prompts(fn.prompt, "photoreal_portrait").positive
        /\ fn.negative = build_prompts(fn.prompt, "photoreal_portrait").negative
        /\ fn.negative[1] = NEGATIVE_BASE
        /\ fn.pc \in {"params", "done"} =>
              /\ fn.params = style_params("photoreal_portrait")
              /\ fn.params = [width |-> 1024, height |-> 1024, steps |-> 35, cfg |-> 70,
                              hires |-> TRUE, hires_scale |-> 20, hires_denoise |-> 35]

\* a key that differs from a catalog key only by case has been resolved
C21_Witness ==
    /\ fn.pc = "done" /\ fn.style = "Photoreal_Portrait" /\ fn.prompt = PromptCar
    /\ fn.params.hires_scale = 20 /\ Len(fn.positive) = Len(PromptCar) + 4

\* C22: every preset of the catalog has a positive width and height, a
\* hires_denoise between 0 and 1 (0..100 hundredths) and, when hires is set, a
\* hires_scale of at least 1.0 (10 tenths); so have the parameters resolved
\* from any key.
C22_PresetInvariants ==
    /\ fn.pc \in {"params", "done"} =>
          /\ fn.params.width > 0 /\ fn.params.height > 0
          /\ fn.params.hires_denoise >= 0 /\ fn.params.hires_denoise <= 100
          /\ fn.params.hires => fn.params.hires_scale >= 10
    /\ fn.style \in StyleKeys =>
          LET preset == STYLE_PRESETS[fn.style]
          IN  /\ preset.resolution[1] > 0 /\ preset.resolution[2] > 0
              /\ preset.hires_denoise >= 0 /\ preset.hires_denoise <= 100
              /\ preset.hires => preset.hires_scale >= 10

\* the parameters of the preset at the edge of the ranges (hires off, denoise
\* 0.0, scale 1.0) have been resolved
C22_Witness ==
    /\ fn.pc = "done" /\ fn.style = "watercolor"
    /\ ~fn.params.hires /\ fn.params.hires_denoise = 0 /\ fn.params.hires_scale = 10

\* ------------------------------------------------------------------------
\* Determinism, seeding and termination
\* ------------------------------------------------------------------------

\* the metadata of a run without hires and without enhancement, as a function of
\* the prompt, the seed and the style alone
MetaOf(prompt, seed, style) ==
    LET preset == LookupStyle(style)
    IN  [prompt |-> prompt, style |-> style, seed |-> seed,
         width |-> preset.resolution[1], height |-> preset.resolution[2],
         steps |-> preset.steps, cfg |-> preset.cfg, hires |-> FALSE,
         hires_scale |-> preset.hires_scale, hires_denoise |-> preset.hires_denoise,
         face_enhance |-> FALSE, upscale |-> 0]

\* the request of worker w runs without hires and without enhancement
PlainRun(w) ==
    /\ ~LookupStyle(wk[w].req.style).hires
    /\ ~WantsFace(wk[w].req)
    /\ wk[w].req.upscale = 0

\* C23: the metadata a run without hires and without enhancement returns is
\* determined by its prompt, seed and style: whatever the process did before
\* (requests that failed or succeeded, storage initialised or not, upload
\* failing or not), it is the same value, so any two such runs agree.
C23_MetadataDeterministic ==
    \A w \in Workers :
        (wk[w].pc = "done" /\ PlainRun(w)) =>
            wk[w].resp.meta = MetaOf(wk[w].req.prompt, wk[w].req.seed, wk[w].req.style)

\* a plain run has returned in a process that had initialised storage, its
\* own upload failing
C23_Witness ==
    \E w \in Workers :
        /\ wk[w].pc = "done" /\ PlainRun(w) /\ wk[w].req.style = "watercolor"
        /\ wk[w].req.seed = 7 /\ wk[w].req.prompt = PromptCar
        /\ initialized /\ wk[w].resp.public_url = ""

\* C24: every model call of a request (the base call and the refiner call, in
\* either shape) draws from a generator seeded with that request's seed.
C24_OneSeedPerRequest ==
    \A w \in Workers :
        \A i \in 1..Len(wk[w].calls) : wk[w].calls[i].seed = wk[w].req.seed

\* the answer of worker w is whole: nothing while the request runs, the error
\* answer after a failure, the complete envelope after a success
WholeAnswer(w) ==
    /\ InFlight(w) => wk[w].resp = NoResp
    /\ wk[w].pc = "failed" => wk[w].resp = ErrorResp
    /\ wk[w].pc = "done" =>
          /\ wk[w].resp.status = "ok"
          /\ wk[w].resp.image.fmt = "PNG"
          /\ wk[w].resp.image.stage \in {"refined", "enhanced"}
          /\ DOMAIN wk[w].resp.meta = DOMAIN NoMeta

\* C25: every request that has started eventually ends, as a success or as a
\* failure, given that the worker keeps taking steps (every call returns or
\* raises); at every moment its answer is whole: none yet, the error answer, or
\* the complete success envelope.
C25_RequestTerminates ==
    \A w \in Workers :
        /\ [](WholeAnswer(w))
        /\ (InFlight(w) ~> (wk[w].pc \in {"done", "failed"}))

\* a request has ended in failure after its first pass, with the error answer
C25_Witness ==
    \E w \in Workers :
        /\ wk[w].pc = "failed" /\ wk[w].resp = ErrorResp
        /\ Has(wk[w].trace, "generate") /\ wk[w].req.style = "neon"

\* ------------------------------------------------------------------------
\* The refinement pass
\* ------------------------------------------------------------------------

\* C26: for every preset without hires, the refiner call is an img2img call on
\* the base image at the preset's resolution, with the strength 0.25 (within
\* 0.25..0.35) and a step count between floor(0.6 x steps) and floor(0.7 x steps).
C26_SinglePassRefinement ==
    \A w \in Workers :
        LET preset == LookupStyle(wk[w].req.style)
        IN  (Len(wk[w].calls) >= 2 /\ ~preset.hires) =>
                LET c == wk[w].calls[2]
                IN  /\ c.model = "refiner"
                    /\ c.image.stage = "base"
                    /\ c.image.width = preset.resolution[1]
                    /\ c.image.height = preset.resolution[2]
                    /\ c.width = preset.resolution[1] /\ c.height = preset.resolution[2]
                    /\ c.strength = 25
                    /\ c.strength >= 25 /\ c.strength <= 35
                    /\ c.steps >= (preset.steps * 6) \div 10
                    /\ c.steps <= (preset.steps * 7) \div 10

\* the watercolor preset (28 steps, hires off) has been refined in 16 steps
C26_Witness ==
    \E w \in Workers :
        /\ wk[w].pc = "done" /\ wk[w].req.style = "watercolor"
        /\ Len(wk[w].calls) = 2 /\ wk[w].calls[2].steps = 16
        /\ wk[w].calls[1].steps = 28

\* C27: for every preset with hires, the refiner call runs on the image
\* resampled to the preset's resolution, with the preset's hires_denoise as its
\* strength and floor(0.7 x steps) steps.
C27_TwoPassRefinement ==
    \A w \in Workers :
        LET preset == LookupStyle(wk[w].req.style)
        IN  (Len(wk[w].calls) >= 2 /\ preset.hires) =>
                LET c == wk[w].calls[2]
                IN  /\ c.model = "refiner"
                    /\ c.image.stage = "upscaled"
                    /\ c.image.width = preset.resolution[1]
                    /\ c.image.height = preset.resolution[2]
                    /\ c.strength = preset.hires_denoise
                    /\ c.steps = (preset.steps * 7) \div 10

\* the editorial preset (36 steps, denoise 0.38) has been refined in 25 steps
C27_Witness ==
    \E w \in Workers :
        /\ wk[w].pc = "done" /\ wk[w].req.style = "editorial"
        /\ wk[w].calls[2].steps = 25 /\ wk[w].calls[2].strength = 38
        /\ wk[w].calls[2].image.height = 1280

\* ------------------------------------------------------------------------
\* Encodings
\* ------------------------------------------------------------------------

\* C28: the image of every successful request is encoded as PNG whatever
\* jpeg_proxy is; the flag only decides how the payload sent to the enhancer is
\* encoded: the pixels of the answer went through JPEG exactly when the
\* enhancer's answer was used and the flag was set, and when the enhancer was
\* not called or failed the image is the lossless encoding of the refined image.
C28_ProxyOnlyAffectsPayload ==
    \A w \in Workers :
        wk[w].pc = "done" =>
            /\ wk[w].resp.image.fmt = "PNG"
            /\ wk[w].resp.image.lossy <=> (wk[w].enh = "ok" /\ wk[w].req.jpeg_proxy)
            /\ wk[w].enh # "ok" =>
                  wk[w].resp.image =
                      [fmt |-> "PNG", width |-> wk[w].refined.width,
                       height |-> wk[w].refined.height, stage |-> "refined", lossy |-> FALSE]
            /\ "jpeg_proxy" \notin DOMAIN wk[w].resp.meta

\* an enhanced image whose payload was sent as JPEG has been returned as PNG
C28_Witness ==
    \E w \in Workers :
        /\ wk[w].pc = "done" /\ wk[w].req.jpeg_proxy /\ wk[w].enh = "ok"
        /\ wk[w].resp.image.fmt = "PNG" /\ wk[w].resp.image.stage = "enhanced"

\* seq is the pieces of tags with ", " between every two of them
IsCommaJoined(seq, tags) ==
    /\ Len(seq) = IF Len(tags) = 0 THEN 0 ELSE 2 * Len(tags) - 1
    /\ \A j \in 1..Len(tags) : seq[2 * j - 1] = tags[j]
    /\ \A j \in 1..(Len(tags) - 1) : seq[2 * j] = ", "

\* C29: whatever was composed before, the positive prompt is the user prompt,
\* then ", ", then the preset's positive tags in catalog order with ", " between
\* them, and the negative prompt is the preset's negative tags in catalog order
\* with ", " between them.
C29_ComposeDeterministic ==
    fn.pc \in {"built", "params", "done"} =>
        LET preset == IF fn.style \in StyleKeys THEN STYLE_PRESETS[fn.style]
                      ELSE STYLE_PRESETS["photoreal_portrait"]
            n == Len(fn.prompt)
        IN  /\ Len(fn.positive) >= n + 1
            /\ SubSeq(fn.positive, 1, n) = fn.prompt
            /\ fn.positive[n + 1] = ", "
            /\ IsCommaJoined(SubSeq(fn.positive, n + 2, Len(fn.positive)), preset.positive_tags)
            /\ IsCommaJoined(fn.negative, preset.negative_tags)

\* the prompts of the portrait preset have been composed
C29_Witness ==
    /\ fn.pc = "done" /\ fn.style = "photoreal_portrait" /\ fn.prompt = PromptPortrait
    /\ fn.negative = <<NEGATIVE_BASE, ", ", "overprocessed skin, plastic skin, uncanny valley">>
    /\ Len(fn.positive) = Len(PromptPortrait) + 4

\* the capital of a letter of the keywords
UpperOf(c) ==
    CASE c = "a" -> "A" [] c = "b" -> "B" [] c = "c" -> "C" [] c = "d" -> "D"
      [] c = "e" -> "E" [] c = "f" -> "F" [] c = "h" -> "H" [] c = "i" -> "I"
      [] c = "l" -> "L" [] c = "m" -> "M" [] c = "n" -> "N" [] c = "o" -> "O"
      [] c = "p" -> "P" [] c = "r" -> "R" [] c = "s" -> "S" [] c = "t" -> "T"
      [] c = "u" -> "U" [] c = "y" -> "Y" [] OTHER -> c

\* keyword k occurs in prompt p at some offset, each letter in either case
OccursAnyCase(p, k) ==
    \E i \in 0..(Len(p) - Len(k)) :
        \A j \in 1..Len(k) : p[i + j] = k[j] \/ p[i + j] = UpperOf(k[j])

\* C30: should_enhance(prompt) is true exactly when one of portrait, face,
\* selfie, headshot, person, model, bust, upper body occurs in the prompt as a
\* contiguous substring, the case of the prompt's letters disregarded.
C30_ShouldEnhanceMatches ==
    fn.pc = "done" =>
        (fn.auto_face <=>
            \E k \in { <<"p", "o", "r", "t", "r", "a", "i", "t">>, <<"f", "a", "c", "e">>,
                        <<"s", "e", "l", "f", "i", "e">>,
                        <<"h", "e", "a", "d", "s", "h", "o", "t">>,
                        <<"p", "e", "r", "s", "o", "n">>, <<"m", "o", "d", "e", "l">>,
                        <<"b", "u", "s", "t">>,
                        <<"u", "p", "p", "e", "r", " ", "b", "o", "d", "y">> } :
                OccursAnyCase(fn.prompt, k))

\* a keyword written in mixed case inside a longer prompt has been found
C30_Witness ==
    /\ fn.pc = "done" /\ fn.auto_face
    /\ fn.prompt = <<"a", " ", "P", "e", "r", "S", "o", "N">>

\* ------------------------------------------------------------------------
\* upgraded-sdxl-api.py: the resolution of a hires-fix answer
\* ------------------------------------------------------------------------

\* C31: a request with hires fix answered by the upgraded service returns an
\* image at the upscaled resolution of the two passes, 1.5 times the
\* resolution of the base pass in each dimension (1152x1152 for a base pass at
\* 768x768, 1536x1536 for one at 1024x1024), refined at strength 0.35.
C31_HiresAnswerIsUpscaled ==
    (UpgAnswered /\ upg.req.use_hires_fix) =>
        /\ Len(upg.calls) = 2
        /\ upg.calls[2].strength = 35
        /\ upg.resp.image.width = (upg.calls[1].width * 15) \div 10
        /\ upg.resp.image.height = (upg.calls[1].height * 15) \div 10
        /\ upg.resp.image.width > upg.calls[1].width

\* ------------------------------------------------------------------------
\* generator_api.py: what a successful request has paid for and reports
\* ------------------------------------------------------------------------

\* C32: when a request has returned a success envelope both model handles are
\* None, whatever earlier failed requests had left resident, and the request
\* has constructed both the base and the refiner pipeline itself.
C32_SuccessPaysBothConstructions ==
    \A w \in Workers :
        (wk[w].pc = "done" /\ wk[w].resp.status = "ok") =>
            /\ handle["base"] = NoneH
            /\ handle["refiner"] = NoneH
            /\ Has(wk[w].trace, "construct_base")
            /\ Has(wk[w].trace, "construct_refiner")

\* C33: for every preset with hires, the first pass runs at a resolution that
\* does not exceed the preset's resolution in either dimension, and the image
\* handed to the refiner after the resample is not smaller than the first-pass
\* image in either dimension.
C33_FirstPassWithinTarget ==
    \A w \in Workers :
        LET preset == LookupStyle(wk[w].req.style)
        IN  (preset.hires /\ Len(wk[w].calls) >= 1) =>
                /\ wk[w].calls[1].width <= preset.resolution[1]
                /\ wk[w].calls[1].height <= preset.resolution[2]
                /\ Len(wk[w].calls) >= 2 =>
                      /\ wk[w].calls[2].image.width >= wk[w].calls[1].width
                      /\ wk[w].calls[2].image.height >= wk[w].calls[1].height

\* the art_deco_poster preset (1024x1536 at scale 1.5) has run its first pass
\* at 768x1024 and its refiner on the image resampled to 1024x1536
C33_Witness ==
    \E w \in Workers :
        /\ wk[w].pc = "done" /\ wk[w].req.style = "art_deco_poster"
        /\ wk[w].calls[1].width = 768 /\ wk[w].calls[1].height = 1024
        /\ wk[w].calls[2].image.width = 1024 /\ wk[w].calls[2].image.height = 1536

\* C34: for every preset, the steps of the returned metadata are the steps the
\* base call of the request was made with, in the single-pass shape and in the
\* two-pass shape (whose base call is made with max(steps, 28)).
C34_MetaStepsAreCallSteps ==
    \A w \in Workers :
        (wk[w].pc = "done" /\ wk[w].resp.status = "ok") =>
            /\ Len(wk[w].calls) >= 1
            /\ wk[w].calls[1].model = "base"
            /\ wk[w].resp.meta.steps = wk[w].calls[1].steps

\* the anime preset (28 steps, hires) has been answered
C34_Witness ==
    \E w \in Workers :
        /\ wk[w].pc = "done" /\ wk[w].req.style = "anime"
        /\ Has(wk[w].trace, "resample")
        /\ wk[w].calls[1].steps = 28 /\ wk[w].resp.meta.steps = 28

\* C35: the style of the returned metadata is the key of a preset of the
\* catalog, and the width, height, steps, cfg and hires fields of the same
\* metadata are that preset's, also when the style key of the request is not
\* in the catalog.
C35_MetaStyleIsPresetKey ==
    \A w \in Workers :
        (wk[w].pc = "done" /\ wk[w].resp.status = "ok") =>
            LET m == wk[w].resp.meta
            IN  /\ m.style \in StyleKeys
                /\ LET p == STYLE_PRESETS[m.style]
                   IN  /\ m.width = p.resolution[1] /\ m.height = p.resolution[2]
                       /\ m.steps = p.steps /\ m.cfg = p.cfg
                       /\ m.hires = p.hires
                       /\ m.hires_scale = p.hires_scale
                       /\ m.hires_denoise = p.hires_denoise

\* ------------------------------------------------------------------------
\* enhancer_api.py and simple_enhancer_api.py
\* ------------------------------------------------------------------------

C37_NoLoraRequestUnaffected ==
    \A i \in 1..Len(gh.answered) :
        gh.answered[i].lora = NoLora => gh.answered[i].img.loras = {}

\* C38: the file that the outputPath of every successful answer refers to
\* holds the image of the request that was given that answer, whatever
\* requests the process has handled since.
C38_OutputPathKeepsImage ==
    \A i \in 1..Len(gh.answered) :
        \E f \in gh.files :
            /\ f.path = GhServed(gh.answered[i].outputPath)
            /\ f.img = gh.answered[i].img

=============================================================================
